---- MODULE Spec2Model ----
(***************************************************************************)
(* SpeechMaster (voicenote_edge_device): the audio-capture state machine   *)
(* of AudioService, the recording validator, the scoring functions and the *)
(* RecordingScreen pipeline that drives them (capture -> validate ->       *)
(* transcribe -> score -> persist), as a state machine.                    *)
(***************************************************************************)
EXTENDS Integers, Sequences, FiniteSets, TLC

(* ---------------------------------------------------------------- bounds *)
\* capture threads (accepted start_recording calls) per behaviour
MaxSessions == 2
\* `duration` of a recording, counted in polls of the 0.1 s stop-signal wait
Duration == 1
\* blocks the input stream delivers to the capture buffer per behaviour
MaxChunks == 2
\* frames in one modelled block (a run of consecutive stream callbacks)
BlockFrames == 8000
\* wall-clock seconds (the granularity of the rec_<timestamp>.wav name)
MaxTime == 2
\* playbacks of the sentence pending or under way at one time
MaxPlays == 1
\* guest sessions (each gets its own temporary directory)
MaxGuests == 1
\* recordings started from the recording screen per behaviour
MaxRecordings == 1
\* stop requests counted per session
MaxStops == 2
\* capture threads per behaviour when the input device is followed
MaxDeviceSessions == 3
\* characters in a text given to normalize_text
MaxTextLen == 5
\* words in a sentence given to calculate_wer
MaxWords == 3
\* reference lengths for which every edit distance up to 2n + 1 is divided
MaxRefWords == 12
\* a long reference, divided for the distances n, n + 1, n + 2 and 2n
LongRef == 20001
\* the largest WER given to calculate_score, in ten-thousandths
MaxWer == 11000

(* ------------------------------------------------------ program constants *)
AUDIO_SAMPLE_RATE == 16000
AUDIO_CHANNELS == 1
MIN_RECORDING_DURATION == 1
MAX_AUDIO_FILE_SIZE == 10485760
SCORE_EXCELLENT_MIN == 70
SCORE_GOOD_MIN == 50
\* bytes the validator skips as the WAV header
WavHeaderBytes == 44
\* RMS floor 0.01 and peak ceiling 0.95, in thousandths of full scale
RmsFloorMilli == 10
PeakCeilMilli == 950

VARIABLES
    \* AudioService
    is_recording,        \* self._is_recording
    stop_event,          \* self._stop_event (set / clear)
    audio_data,          \* self._audio_data: the blocks appended by the stream callback
    thr,                 \* the capture threads, one per accepted start_recording
    \* the file system under the recording directories
    files,
    \* AuthService
    current_user,        \* "none" | "guest" | "user"
    guest_temp_dir,      \* 0 = None, else the number of the guest directory
    guests,              \* guest directories created so far
    \* MainWindow / RecordingScreen (main thread)
    screen,              \* MainWindow._stack: "auth" | "dashboard" | "recording"
    stack,               \* RecordingScreen._stack
    current_sentence,    \* self._current_sentence is set
    current_audio_path,  \* self._current_audio_path
    timer_on,            \* self._recording_timer is running
    now,                 \* the clock second that names recordings
    mainq,               \* queued signal deliveries to the main thread
    workers,             \* the _ProcessingWorker objects
    db,                  \* rows of the recordings table
    \* backend/engine.py
    saved_audio,         \* modes of the uploads kept in SAVE_DIR
    \* LEDService and the playback of the sentence
    led,                 \* the application state shown last, and the thread that set it
    tts_timers,          \* pending QTimer.singleShot(300, self._play_tts)
    playing,             \* playback threads of AudioService.play_audio under way
    \* the pure functions called on their own
    args,                \* the arguments of the call
    ret                  \* the function called last and what it returned

avars == <<is_recording, stop_event, audio_data, thr>>
authv == <<current_user, guest_temp_dir, guests>>
navv == <<screen, stack>>
recv == <<current_sentence, current_audio_path, timer_on, now>>
pipev == <<mainq, workers, db>>
uvars == <<authv, navv, recv, pipev>>
vars == <<is_recording, stop_event, audio_data, thr, files, current_user,
          guest_temp_dir, guests, screen, stack, current_sentence,
          current_audio_path, timer_on, now, mainq, workers, db, saved_audio,
          led, tts_timers, playing, args, ret>>
callv == <<args, ret>>
ledv == <<led, tts_timers, playing>>

(* ------------------------------------------------------------- utilities *)
Min2(a, b) == IF a <= b THEN a ELSE b
Max2(a, b) == IF a >= b THEN a ELSE b
Range(s) == {s[i] : i \in 1..Len(s)}

NoPath == <<0, 0>>
\* recording directories: the registered user's, and one per guest session
\* (directory 0 is the user's, directory g > 0 is the g-th guest session's)
UserDir == 0
Dirs == 0..MaxGuests
IsGuestDir(d) == d # UserDir
Paths == Dirs \X (1..MaxTime)

NoFile == [exists |-> FALSE]

(* ------------------------------------------------------ recorded artifact *)
\* loudness of the captured samples: RMS and peak in thousandths of full scale
Levels == { [rms |-> 5, peak |-> 100],      \* silence
            [rms |-> 200, peak |-> 500],    \* normal speech
            [rms |-> 400, peak |-> 990] }   \* overdriven

\* AudioService._save_wav: mono, 16-bit, AUDIO_SAMPLE_RATE, all buffered
\* blocks, behind the 44-byte header the wave module writes.  rms and peak are
\* the levels of the samples; rms44 and peak44 are the levels of the bytes
\* from offset 44 on, taken two by two as 16-bit values
SaveWav(buf, lvl, s) ==
    [exists |-> TRUE, header_ok |-> TRUE, data_even |-> TRUE, stat_ok |-> TRUE,
     canonical |-> TRUE,
     frames |-> Len(buf) * BlockFrames, rate |-> AUDIO_SAMPLE_RATE,
     channels |-> AUDIO_CHANNELS, rms |-> lvl.rms, peak |-> lvl.peak,
     rms44 |-> lvl.rms, peak44 |-> lvl.peak,
     size |-> WavHeaderBytes + 2 * Len(buf) * BlockFrames]

(* ------------------------------------------- scoring_service.normalize_text *)
UpperCase == <<"A","B","C","D","E","F","G","H","I","J","K","L","M",
               "N","O","P","Q","R","S","T","U","V","W","X","Y","Z">>
LowerCase == <<"a","b","c","d","e","f","g","h","i","j","k","l","m",
               "n","o","p","q","r","s","t","u","v","w","x","y","z">>
\* string.punctuation (without its double quote, backslash and backquote)
Punctuation == {"!", "#", "$", "%", "&", "'", "(", ")", "*", "+", ",",
                "-", ".", "/", ":", ";", "<", "=", ">", "?", "@", "[",
                "]", "^", "_", "{", "|", "}", "~"}
\* the separators of str.split()
Whitespace == {" ", "\t", "\n"}

\* str.lower on one character
Lower(c) ==
    IF \E i \in 1..Len(UpperCase) : UpperCase[i] = c
    THEN LowerCase[CHOOSE i \in 1..Len(UpperCase) : UpperCase[i] = c]
    ELSE c

\* deleting the punctuation without lowering the letters
RECURSIVE StripPunctOnly(_)
StripPunctOnly(text) ==
    IF text = <<>> THEN <<>>
    ELSE IF Head(text) \in Punctuation THEN StripPunctOnly(Tail(text))
    ELSE <<Head(text)>> \o StripPunctOnly(Tail(text))

\* text.lower() and then text.translate(...), which deletes the punctuation
RECURSIVE StripPunct(_)
StripPunct(text) ==
    IF text = <<>> THEN <<>>
    ELSE IF Head(text) \in Punctuation THEN StripPunct(Tail(text))
    ELSE <<Lower(Head(text))>> \o StripPunct(Tail(text))

\* str.split(): the maximal runs of non-whitespace characters
RECURSIVE SplitFrom(_, _)
SplitFrom(text, word) ==
    IF text = <<>> THEN (IF word = <<>> THEN <<>> ELSE <<word>>)
    ELSE IF Head(text) \in Whitespace
         THEN (IF word = <<>> THEN <<>> ELSE <<word>>) \o SplitFrom(Tail(text), <<>>)
         ELSE SplitFrom(Tail(text), Append(word, Head(text)))

Split(text) == SplitFrom(text, <<>>)

\* joining the words with single spaces
RECURSIVE Join(_)
Join(words) ==
    IF words = <<>> THEN <<>>
    ELSE IF Len(words) = 1 THEN words[1]
    ELSE words[1] \o <<" ">> \o Join(Tail(words))

normalize_text(text) ==
    IF text = <<>> THEN <<>>
    ELSE Join(Split(StripPunct(text)))

(* --------------------------------------------- scoring_service.calculate_wer *)
Min3(a, b, c) == Min2(a, Min2(b, c))

\* a table that charges a substitution as a deletion and an insertion
RECURSIVE EditDpNoSubst(_, _, _, _)
EditDpNoSubst(ref, hyp, i, j) ==
    IF i = 0 THEN j
    ELSE IF j = 0 THEN i
    ELSE IF ref[i] = hyp[j] THEN EditDpNoSubst(ref, hyp, i - 1, j - 1)
    ELSE 1 + Min2(EditDpNoSubst(ref, hyp, i - 1, j),
                  EditDpNoSubst(ref, hyp, i, j - 1))

\* dp[i][j] of lines 67-83
RECURSIVE EditDp(_, _, _, _)
EditDp(ref, hyp, i, j) ==
    IF i = 0 THEN j
    ELSE IF j = 0 THEN i
    ELSE IF ref[i] = hyp[j] THEN EditDp(ref, hyp, i - 1, j - 1)
    ELSE 1 + Min3(EditDp(ref, hyp, i - 1, j),
                  EditDp(ref, hyp, i, j - 1),
                  EditDp(ref, hyp, i - 1, j - 1))

\* a quotient that is rounded and then cut off at 1.0
Round4Capped(a, n) ==
    IF a >= n THEN 10000 ELSE (a * 10000 + n \div 2) \div n

\* round(a / n, 4) in ten-thousandths, ties to even
Round4(a, n) ==
    LET q == (a * 10000) \div n
        r == (a * 10000) % n
    IN  IF 2 * r > n THEN q + 1
        ELSE IF 2 * r < n THEN q
        ELSE IF q % 2 = 0 THEN q ELSE q + 1

\* a WER that takes the texts as they are, without normalizing them
calculate_wer_raw(reference, hypothesis) ==
    IF Len(Split(reference)) = 0
    THEN (IF Len(Split(hypothesis)) = 0 THEN 0 ELSE 10000)
    ELSE Round4(EditDp(Split(reference), Split(hypothesis),
                       Len(Split(reference)), Len(Split(hypothesis))),
                Len(Split(reference)))

\* a WER that is 1.0 whenever either text has no word
calculate_wer_empty_one(reference, hypothesis) ==
    IF Len(Split(normalize_text(reference))) = 0
       \/ Len(Split(normalize_text(hypothesis))) = 0
    THEN 10000
    ELSE Round4(EditDp(Split(normalize_text(reference)),
                       Split(normalize_text(hypothesis)),
                       Len(Split(normalize_text(reference))),
                       Len(Split(normalize_text(hypothesis)))),
                Len(Split(normalize_text(reference))))

\* a WER whose table starts from dp[i][0] = 0
calculate_wer_free_deletes(reference, hypothesis) ==
    IF Len(Split(normalize_text(reference))) = 0
    THEN (IF Len(Split(normalize_text(hypothesis))) = 0 THEN 0 ELSE 10000)
    ELSE IF Len(Split(normalize_text(hypothesis))) = 0 THEN 0
    ELSE Round4(EditDp(Split(normalize_text(reference)),
                       Split(normalize_text(hypothesis)),
                       Len(Split(normalize_text(reference))),
                       Len(Split(normalize_text(hypothesis)))),
                Len(Split(normalize_text(reference))))

\* the WER in ten-thousandths
calculate_wer(reference, hypothesis) ==
    LET ref_words == Split(normalize_text(reference))
        hyp_words == Split(normalize_text(hypothesis))
        n == Len(ref_words)
        m == Len(hyp_words)
    IN  IF n = 0 THEN (IF m = 0 THEN 0 ELSE 10000)
        ELSE Round4(EditDp(ref_words, hyp_words, n, m), n)

(* ------------------------------------------- scoring_service.calculate_score *)
\* WERs (ten-thousandths, below 1.0) for which the double (1 - wer) * 100 lies
\* just under the whole number it stands for, so that int() drops one
FloatShort == {3400, 5500, 5600, 6700, 6800, 7800, 7900, 8000, 8100,
               8900, 9000, 9100, 9200, 9300}

\* a percentage taken from the size of (1 - wer) * 100, whatever its sign
IntPercentAbs(wer) ==
    IF wer <= 10000 THEN (10000 - wer) \div 100 ELSE (wer - 10000) \div 100

\* int((1 - wer) * 100): truncation toward zero
IntPercent(wer) ==
    LET x == 10000 - wer
    IN  IF x >= 0
        THEN (IF wer \in FloatShort THEN (x \div 100) - 1 ELSE x \div 100)
        ELSE 0 - ((0 - x) \div 100)

Accuracy(wer) == Max2(0, Min2(100, IntPercent(wer)))

\* categories whose thresholds are exclusive
CategoryAbove(accuracy) ==
    IF accuracy > SCORE_EXCELLENT_MIN THEN "excellent"
    ELSE IF accuracy > SCORE_GOOD_MIN THEN "good"
    ELSE "needs_improvement"

Category(accuracy) ==
    IF accuracy >= SCORE_EXCELLENT_MIN THEN "excellent"
    ELSE IF accuracy >= SCORE_GOOD_MIN THEN "good"
    ELSE "needs_improvement"

LedColor(accuracy) ==
    IF accuracy >= SCORE_EXCELLENT_MIN THEN "green"
    ELSE IF accuracy >= SCORE_GOOD_MIN THEN "orange"
    ELSE "red"

calculate_score(wer) ==
    [wer |-> wer, accuracy_percentage |-> Accuracy(wer),
     category |-> Category(Accuracy(wer)), led_color |-> LedColor(Accuracy(wer))]

(* ------------------------------------------- scoring_service.score_recording *)
score_recording(transcription, target_sentence) ==
    LET score == calculate_score(calculate_wer(target_sentence, transcription))
    IN  [transcription |-> transcription, target |-> target_sentence,
         wer |-> score.wer, accuracy |-> score.accuracy_percentage,
         category |-> score.category, led_color |-> score.led_color]

(* --------------------------------------- AudioService.validate_recording *)
\* the issues found inside `with wave.open(...)`, lines 212-220
StructuralIssues(f) ==
    (IF (IF f.rate > 0 THEN f.frames < MIN_RECORDING_DURATION * f.rate ELSE TRUE)
     THEN <<"too_short">> ELSE <<>>)
    \o (IF f.rate # AUDIO_SAMPLE_RATE THEN <<"wrong_sample_rate">> ELSE <<>>)

\* lines 223-235: levels of the 16-bit values read after the first 44 bytes
LevelIssues(f) ==
    IF f.size > WavHeaderBytes
    THEN (IF f.rms44 < RmsFloorMilli THEN <<"too_quiet">> ELSE <<>>)
         \o (IF f.peak44 > PeakCeilMilli THEN <<"clipping">> ELSE <<>>)
    ELSE <<>>

\* lines 237-239
SizeIssues(f) ==
    IF f.size > MAX_AUDIO_FILE_SIZE THEN <<"too_large">> ELSE <<>>

\* the try block, lines 210-239: wave.open raises on a file it cannot read or
\* parse, np.frombuffer raises on sample data of odd length, os.path.getsize
\* raises when the file can no longer be examined; `issues` is the list as it
\* stands when the block is left
ValidateTry(f) ==
    IF ~f.header_ok THEN [raised |-> TRUE, issues |-> <<>>]
    ELSE IF ~f.data_even THEN [raised |-> TRUE, issues |-> StructuralIssues(f)]
    ELSE IF ~f.stat_ok
    THEN [raised |-> TRUE, issues |-> StructuralIssues(f) \o LevelIssues(f)]
    ELSE [raised |-> FALSE,
          issues |-> StructuralIssues(f) \o LevelIssues(f) \o SizeIssues(f)]

\* a validator without the except clause: the exception leaves the function
validate_except_none(t) == t

\* an except clause that starts the list of issues again
validate_except_reset(t) == [raised |-> FALSE, issues |-> <<"corrupted">>]

\* the except clause, lines 241-243
validate_except(t) == [raised |-> FALSE, issues |-> Append(t.issues, "corrupted")]

\* the try statement as a whole
ValidateGuarded(f) ==
    IF ValidateTry(f).raised THEN validate_except(ValidateTry(f)) ELSE ValidateTry(f)

ValidationIssues(f) == ValidateGuarded(f).issues

\* `raised` tells whether an exception leaves the function (then no verdict
\* is returned)
validate_recording(f) ==
    IF ~f.exists
    THEN [valid |-> FALSE, issues |-> <<"file_not_found">>, raised |-> FALSE]
    ELSE [valid |-> ~ValidateGuarded(f).raised /\ ValidationIssues(f) = <<>>,
          issues |-> ValidationIssues(f),
          raised |-> ValidateGuarded(f).raised]

(* -------------------------------------------- STTService.transcribe_audio *)
MsgNotInit == "STT engine not initialized."
MsgNotFound == "Audio file not found"
MsgTrError == "Transcription error"
MsgTrOk == "Transcription successful."

\* `outcome` is what the recognizer does: it returns a text, or loading,
\* inference or decoding raises inside the try block
transcribe_audio(initialized, f, outcome) ==
    IF ~initialized
    THEN [success |-> FALSE, transcription |-> <<>>, message |-> MsgNotInit]
    ELSE IF ~f.exists
    THEN [success |-> FALSE, transcription |-> <<>>, message |-> MsgNotFound]
    ELSE IF outcome.raises
    THEN [success |-> FALSE, transcription |-> <<>>, message |-> MsgTrError]
    ELSE [success |-> TRUE, transcription |-> outcome.text, message |-> MsgTrOk]

(* ------------------------------------------------------- capture results *)
MsgSaved == "Recording saved."
MsgNoAudio == "No audio data captured."
MsgRecError == "Recording error"

ResultSaved(p) == [success |-> TRUE, audio_path |-> p, message |-> MsgSaved]
ResultEmpty == [success |-> FALSE, audio_path |-> NoPath, message |-> MsgNoAudio]
ResultError == [success |-> FALSE, audio_path |-> NoPath, message |-> MsgRecError]
NoResult == [success |-> FALSE, audio_path |-> NoPath, message |-> ""]

\* a capture thread at the moment start_recording creates it; besides its
\* position (pc), path and elapsed time, the record counts what it has done
NewThread(p) ==
    [pc |-> "open", path |-> p, elapsed |-> 0, result |-> NoResult,
     opens |-> 0, open_failed |-> FALSE, empty |-> FALSE, file_size |-> 0,
     exits |-> 0, finals |-> 0, saves |-> 0, calls |-> <<>>,
     stop_req |-> 0, stop_set |-> FALSE, cb_raised |-> FALSE, escaped |-> "none"]

\* a thread object that has ended and been dropped
GoneThread == [NewThread(NoPath) EXCEPT !.pc = "gone"]

Sessions == 1..Len(thr)
Ended(s) == thr[s].pc \in {"done", "crashed", "gone"}
\* the capture thread of session s has not finished
Live(s) == ~Ended(s)
\* the stream of session s is open
Capturing(s) == thr[s].pc = "loop"

(* ---------------------------------------------- AudioService.start_recording *)
\* a start that leaves the stop event as the last session left it
start_recording_accept_keep(p) ==
    /\ stop_event' = stop_event
    /\ audio_data' = <<>>
    /\ is_recording' = TRUE
    /\ thr' = Append([s \in Sessions |-> IF Ended(s) THEN GoneThread ELSE thr[s]],
                     NewThread(p))

\* lines 96-98 and 175-176; the Thread object of an ended capture is dropped
start_recording_accept(p) ==
    /\ stop_event' = FALSE
    /\ audio_data' = <<>>
    /\ is_recording' = TRUE
    /\ thr' = Append([s \in Sessions |-> IF Ended(s) THEN GoneThread ELSE thr[s]],
                     NewThread(p))

\* lines 92-94: the guard
start_recording(p) ==
    IF is_recording
    THEN UNCHANGED avars
    ELSE start_recording_accept(p)

\* the model creates at most MaxSessions threads
CanStart == is_recording \/ Len(thr) < MaxSessions

\* and at most MaxRecordings of them from the recording screen
CanRecord == is_recording \/ Len(thr) < MaxRecordings

(* ----------------------------------------------- AudioService.stop_recording *)
\* a stop request that flips the event instead of setting it
stop_recording_toggle ==
    /\ stop_event' = ~stop_event
    /\ UNCHANGED <<is_recording, audio_data>>

stop_recording_set ==
    /\ stop_event' = TRUE
    /\ UNCHANGED <<is_recording, audio_data>>

stop_recording ==
    /\ IF is_recording
       THEN stop_recording_set
       ELSE UNCHANGED <<is_recording, stop_event, audio_data>>
    \* bookkeeping: the stop requests made while a session was capturing, and
    \* whether a request has set the event since the session was started
    /\ thr' = [s \in Sessions |->
                 [thr[s] EXCEPT
                    !.stop_req = IF Capturing(s) THEN Min2(@ + 1, MaxStops) ELSE @,
                    !.stop_set = @ \/ (is_recording /\ Live(s))]]

(* ------------------------------------ AudioService.start_recording._record *)
\* a capture thread that tries the device again when opening it failed
record_open_retry(s, device_ok) ==
    /\ thr[s].pc = "open"
    /\ thr' = [thr EXCEPT ![s].opens = Min2(@ + 1, 2),
                          ![s].open_failed = ~device_ok,
                          ![s].pc = IF device_ok THEN "loop" ELSE "open"]
    /\ UNCHANGED <<is_recording, stop_event, audio_data, files>>

\* lines 102-124: import sounddevice, create the InputStream and enter it
record_open(s, device_ok) ==
    /\ thr[s].pc = "open"
    /\ thr' = [thr EXCEPT ![s].opens = @ + 1,
                          ![s].open_failed = ~device_ok,
                          ![s].pc = IF device_ok THEN "loop" ELSE "except"]
    /\ UNCHANGED <<is_recording, stop_event, audio_data, files>>

\* _audio_callback: the open stream appends a block to self._audio_data
audio_callback(s) ==
    /\ thr[s].pc = "loop"
    /\ Len(audio_data) < MaxChunks
    /\ audio_data' = Append(audio_data, s)
    /\ UNCHANGED <<is_recording, stop_event, thr, files>>

\* lines 125-129: one turn of the polling loop; leaving it closes the stream
record_poll(s) ==
    /\ thr[s].pc = "loop"
    /\ IF stop_event \/ thr[s].elapsed >= Duration
       THEN thr' = [thr EXCEPT ![s].pc = "stopped", ![s].exits = @ + 1]
       ELSE thr' = [thr EXCEPT ![s].elapsed = @ + 1]
    /\ UNCHANGED <<is_recording, stop_event, audio_data, files>>

\* lines 131-133
record_stopped(s) ==
    /\ thr[s].pc = "stopped"
    /\ is_recording' = FALSE
    /\ thr' = [thr EXCEPT ![s].pc = "check"]
    /\ UNCHANGED <<stop_event, audio_data, files>>

\* line 136, and lines 150-156 when the buffer is empty
record_check(s) ==
    /\ thr[s].pc = "check"
    /\ IF audio_data # <<>>
       THEN thr' = [thr EXCEPT ![s].pc = "save"]
       ELSE thr' = [thr EXCEPT ![s].pc = "deliver", ![s].result = ResultEmpty,
                               ![s].empty = TRUE, ![s].finals = @ + 1]
    /\ UNCHANGED <<is_recording, stop_event, audio_data, files>>

\* lines 137-138: np.concatenate raises on an empty list, _save_wav may fail
record_save(s, lvl, io_ok) ==
    /\ thr[s].pc = "save"
    /\ IF audio_data = <<>> \/ ~io_ok
       THEN /\ thr' = [thr EXCEPT ![s].pc = "except"]
            /\ files' = files
       ELSE /\ files' = [files EXCEPT ![thr[s].path] = SaveWav(audio_data, lvl, s)]
            /\ thr' = [thr EXCEPT ![s].pc = "result", ![s].saves = @ + 1]
    /\ UNCHANGED <<is_recording, stop_event, audio_data>>

\* lines 140-148: file_size is 0 when the file is not there; the result is a
\* success either way
record_result(s) ==
    /\ thr[s].pc = "result"
    /\ thr' = [thr EXCEPT ![s].pc = "deliver", ![s].finals = @ + 1,
                          ![s].file_size = IF files[thr[s].path].exists
                                           THEN files[thr[s].path].size ELSE 0,
                          ![s].result = ResultSaved(thr[s].path)]
    /\ UNCHANGED <<is_recording, stop_event, audio_data, files>>

\* lines 158-159: done_callback(result) inside the try block
record_deliver(s, cb_raises) ==
    /\ thr[s].pc = "deliver"
    /\ thr' = [thr EXCEPT ![s].calls = Append(@, thr[s].result),
                          ![s].cb_raised = cb_raises,
                          ![s].pc = IF cb_raises THEN "except" ELSE "done"]
    /\ UNCHANGED <<is_recording, stop_event, audio_data, files>>

\* lines 161-171: the except block
record_except(s) ==
    /\ thr[s].pc = "except"
    /\ is_recording' = FALSE
    /\ thr' = [thr EXCEPT ![s].pc = "deliver_err", ![s].result = ResultError]
    /\ UNCHANGED <<stop_event, audio_data, files>>

\* lines 172-173: done_callback(result) inside the except block
record_deliver_err(s, cb_raises) ==
    /\ thr[s].pc = "deliver_err"
    /\ thr' = [thr EXCEPT ![s].calls = Append(@, thr[s].result),
                          ![s].pc = IF cb_raises THEN "crashed" ELSE "done",
                          ![s].escaped = IF cb_raises THEN "callback" ELSE @]
    /\ UNCHANGED <<is_recording, stop_event, audio_data, files>>

(* ------------------------------------------------- RecordingScreen: data *)
\* the sentence being practised, and what the recognizer may return for it
TargetText == <<"G", "o", " ", "o", "n", ".">>
Transcripts == { <<>>, <<"g", "o", " ", "o", "n">>, <<"g", "o">> }
Outcomes == {[raises |-> TRUE, text |-> <<>>]}
            \cup {[raises |-> FALSE, text |-> x] : x \in Transcripts}

FileAt(p) == IF p \in Paths THEN files[p] ELSE NoFile

NoTr == [success |-> FALSE, transcription |-> <<>>, message |-> ""]
NoScore == [transcription |-> <<>>, target |-> <<>>, wer |-> 0, accuracy |-> 0,
            category |-> "", led_color |-> ""]

\* _ProcessingWorker.__init__; the record also keeps the verdict of the
\* _process_recording call that created the worker and the stages run so far
NewWorker(p, issues) ==
    [pc |-> "start", path |-> p, target |-> TargetText, issues |-> issues,
     log |-> <<"validate">>, tr |-> NoTr, score |-> NoScore, emitted |-> "",
     shown |-> "", saved |-> FALSE, guest |-> FALSE]

\* a worker whose signal has been handled and which has been dropped
GoneWorker == [NewWorker(NoPath, <<>>) EXCEPT !.pc = "gone", !.log = <<>>]

Workers == 1..Len(workers)

Msg(kind, w, msg, result, score) ==
    [kind |-> kind, w |-> w, msg |-> msg, result |-> result, score |-> score]

(* ------------------------------------------------------------ LEDService *)
\* LEDService.set_state(app_state) called on thread `by`
set_state(app_state, by) == led' = [state |-> app_state, by |-> by]

\* led_map of _on_processing_done
ScoreLed(category) ==
    IF category = "excellent" THEN "score_excellent"
    ELSE IF category = "good" THEN "score_good"
    ELSE IF category = "needs_improvement" THEN "score_poor"
    ELSE "idle"

(* ----------------------------------------------------------- AuthService *)
is_guest == current_user = "guest"

\* AuthService.get_user_recording_dir (a user is logged in on this screen)
get_user_recording_dir ==
    IF is_guest THEN guest_temp_dir ELSE UserDir

\* AuthService.logout: a guest's temporary directory is removed
logout ==
    /\ current_user # "none"
    /\ IF is_guest /\ guest_temp_dir # 0
       THEN /\ files' = [p \in Paths |->
                           IF p[1] = guest_temp_dir THEN NoFile ELSE files[p]]
            /\ guest_temp_dir' = 0
       ELSE UNCHANGED <<files, guest_temp_dir>>
    /\ current_user' = "none"
    /\ UNCHANGED guests

(* ------------------------------------------------------- MainWindow slots *)
\* AuthScreen login with valid credentials, MainWindow._on_login
Login ==
    /\ screen = "auth"
    /\ current_user' = "user"
    /\ screen' = "dashboard"
    /\ UNCHANGED <<avars, files, guest_temp_dir, guests, stack, recv, pipev,
                   saved_audio, callv, ledv>>

\* AuthScreen._on_guest (create_guest_session), MainWindow._on_guest_login
GuestLogin ==
    /\ screen = "auth"
    /\ guests < MaxGuests
    /\ guests' = guests + 1
    /\ guest_temp_dir' = guests + 1
    /\ current_user' = "guest"
    /\ screen' = "dashboard"
    /\ UNCHANGED <<avars, files, stack, recv, pipev, saved_audio, callv, ledv>>

\* MainWindow._on_logout
Logout ==
    /\ screen = "dashboard"
    /\ logout
    /\ set_state("idle", "main")
    /\ screen' = "auth"
    /\ UNCHANGED <<avars, stack, recv, pipev, saved_audio, callv, tts_timers, playing>>

\* MainWindow._go_to_recording (both engines available): RecordingScreen.reset
GoToRecording ==
    /\ screen = "dashboard"
    /\ screen' = "recording"
    /\ stack' = "selection"
    /\ UNCHANGED <<avars, files, authv, recv, pipev, saved_audio, callv, ledv>>

(* ---------------------------------------------------- RecordingScreen slots *)
\* _on_sentence_selected
SelectSentence ==
    /\ screen = "recording" /\ stack = "selection"
    /\ tts_timers < MaxPlays
    /\ current_sentence' = TRUE
    /\ stack' = "playback"
    /\ tts_timers' = tts_timers + 1
    /\ UNCHANGED <<avars, files, authv, screen, current_audio_path, timer_on, now,
                   pipev, saved_audio, callv, led, playing>>

\* _play_tts, run by the timer on the main thread; `tts_ok` is whether
\* text_to_speech succeeded
play_tts(tts_ok) ==
    IF ~current_sentence
    THEN UNCHANGED <<led, playing>>
    ELSE IF tts_ok
    THEN /\ set_state("playing_tts", "main")
         /\ playing' = playing + 1
    ELSE /\ set_state("idle", "main")
         /\ UNCHANGED playing

PlayTts ==
    /\ tts_timers > 0
    /\ playing < MaxPlays
    /\ tts_timers' = tts_timers - 1
    /\ \E tts_ok \in BOOLEAN : play_tts(tts_ok)
    /\ UNCHANGED <<avars, files, uvars, saved_audio, callv>>

\* AudioService.play_audio._play, lines 276-281, on the playback thread:
\* done_callback is `lambda: self._led.set_state('idle')`
play_done ==
    /\ playing' = playing - 1
    /\ set_state("idle", "playback")

PlaybackDone ==
    /\ playing > 0
    /\ play_done
    /\ UNCHANGED <<avars, files, uvars, saved_audio, callv, tts_timers>>

\* _start_recording, the slot of the Start Recording button; `t` is the clock
\* second read by datetime.now()
ui_start_recording(mic_ok, t) ==
    IF ~current_sentence \/ ~mic_ok
    THEN UNCHANGED <<avars, current_audio_path, stack, timer_on, now, led>>
    ELSE /\ now' = t
         /\ current_audio_path' = <<get_user_recording_dir, t>>
         /\ stack' = "recording"
         /\ set_state("recording", "main")
         /\ timer_on' = TRUE
         /\ start_recording(<<get_user_recording_dir, t>>)

StartClicked ==
    /\ screen = "recording" /\ stack = "playback"
    /\ CanRecord
    /\ \E mic_ok \in BOOLEAN, t \in {now, Min2(now + 1, MaxTime)} :
          ui_start_recording(mic_ok, t)
    /\ UNCHANGED <<files, authv, screen, current_sentence, pipev, saved_audio, callv,
                   tts_timers, playing>>

\* _stop_recording
ui_stop_recording ==
    /\ timer_on' = FALSE
    /\ stop_recording

\* the Stop Recording button
StopClicked ==
    /\ screen = "recording" /\ stack = "recording"
    /\ ui_stop_recording
    /\ UNCHANGED <<files, authv, navv, current_sentence, current_audio_path, now,
                   pipev, saved_audio, callv, ledv>>

\* _tick_timer at the tick that reaches MAX_RECORDING_DURATION
TimerExpired ==
    /\ timer_on
    /\ ui_stop_recording
    /\ UNCHANGED <<files, authv, navv, current_sentence, current_audio_path, now,
                   pipev, saved_audio, callv, ledv>>

\* _on_back
on_back ==
    CASE stack = "selection" ->
           /\ screen' = "dashboard"
           /\ UNCHANGED <<avars, stack, timer_on>>
      [] stack = "recording" ->
           /\ ui_stop_recording
           /\ stack' = "playback"
           /\ UNCHANGED screen
      [] stack = "processing" ->
           UNCHANGED <<avars, stack, timer_on, screen>>
      [] stack = "score" ->
           /\ stack' = "selection"
           /\ UNCHANGED <<avars, timer_on, screen>>
      [] OTHER ->
           /\ stack' = "selection"
           /\ UNCHANGED <<avars, timer_on, screen>>

BackClicked ==
    /\ screen = "recording"
    /\ on_back
    /\ UNCHANGED <<files, authv, current_sentence, current_audio_path, now, pipev,
                   saved_audio, callv, ledv>>

\* the score page: _retry_sentence, _next_sentence, and the dashboard button
ScoreClicked ==
    /\ screen = "recording" /\ stack = "score"
    /\ \/ /\ tts_timers < MaxPlays
          /\ stack' = "playback"
          /\ tts_timers' = tts_timers + 1
          /\ UNCHANGED screen
       \/ stack' = "selection" /\ UNCHANGED <<screen, tts_timers>>
       \/ screen' = "dashboard" /\ UNCHANGED <<stack, tts_timers>>
    /\ UNCHANGED <<avars, files, authv, recv, pipev, saved_audio, callv, led, playing>>

Has(issues, x) == \E i \in 1..Len(issues) : issues[i] = x

\* lines 589-603: the processing page and a new worker on its own QThread;
\* the previous worker object is dropped once its signal has been handled
start_worker(p, issues) ==
    /\ stack' = "processing"
    /\ set_state("processing", "main")
    /\ workers' = Append([w \in Workers |->
                            IF workers[w].pc = "handled" THEN GoneWorker
                            ELSE workers[w]],
                         NewWorker(p, issues))

\* a pipeline that stops on every verdict that is not valid
after_validation_strict(validation, reply) ==
    IF ~validation.valid
    THEN stack' = "playback" /\ UNCHANGED <<workers, led>>
    ELSE start_worker(current_audio_path, validation.issues)

\* lines 571-587: what the validation verdict does to the pipeline; `reply`
\* answers the Low Audio dialog
after_validation(validation, reply) ==
    IF ~validation.valid /\ Has(validation.issues, "too_quiet") /\ reply = "retry"
    THEN stack' = "playback" /\ UNCHANGED <<workers, led>>
    ELSE IF ~validation.valid /\ ~Has(validation.issues, "too_quiet")
            /\ Has(validation.issues, "too_short")
    THEN stack' = "playback" /\ UNCHANGED <<workers, led>>
    ELSE start_worker(current_audio_path, validation.issues)

\* _process_recording(rec_result)
process_recording(rec_result, reply) ==
    /\ timer_on' = FALSE
    /\ IF ~rec_result.success
       THEN /\ stack' = "playback"
            /\ set_state("error", "main")
            /\ UNCHANGED workers
       ELSE after_validation(validate_recording(FileAt(current_audio_path)), reply)

ProcessRecording ==
    /\ mainq # <<>>
    /\ Head(mainq).kind = "rec"
    /\ mainq' = Tail(mainq)
    /\ \E reply \in {"retry", "ignore"} :
          process_recording(Head(mainq).result, reply)
    /\ UNCHANGED <<avars, files, authv, screen, current_sentence,
                   current_audio_path, now, db, saved_audio, callv, tts_timers, playing>>

\* a worker that scores whatever the recognizer returned, failed or not
worker_emit_unchecked(w, result) ==
    /\ workers' = [workers EXCEPT ![w].pc = "finished",
                      ![w].log = @ \o <<"transcribe", "score">>,
                      ![w].tr = result,
                      ![w].score = score_recording(result.transcription,
                                                   workers[w].target),
                      ![w].emitted = "finished"]
    /\ mainq' = Append(mainq,
           Msg("finished", w, "", NoResult,
               score_recording(result.transcription, workers[w].target)))

\* a worker that treats an empty transcription as a failed one
worker_emit_nonempty(w, result) ==
    IF ~result.success \/ result.transcription = <<>>
    THEN /\ workers' = [workers EXCEPT ![w].pc = "finished",
                           ![w].log = Append(@, "transcribe"),
                           ![w].tr = result,
                           ![w].emitted = "error"]
         /\ mainq' = Append(mainq, Msg("error", w, result.message, NoResult, NoScore))
    ELSE /\ workers' = [workers EXCEPT ![w].pc = "finished",
                           ![w].log = @ \o <<"transcribe", "score">>,
                           ![w].tr = result,
                           ![w].score = score_recording(result.transcription,
                                                        workers[w].target),
                           ![w].emitted = "finished"]
         /\ mainq' = Append(mainq,
                Msg("finished", w, "", NoResult,
                    score_recording(result.transcription, workers[w].target)))

\* _ProcessingWorker.run, lines 36-43, given the transcription result
worker_emit(w, result) ==
    IF ~result.success
    THEN /\ workers' = [workers EXCEPT ![w].pc = "finished",
                           ![w].log = Append(@, "transcribe"),
                           ![w].tr = result,
                           ![w].emitted = "error"]
         /\ mainq' = Append(mainq, Msg("error", w, result.message, NoResult, NoScore))
    ELSE /\ workers' = [workers EXCEPT ![w].pc = "finished",
                           ![w].log = @ \o <<"transcribe", "score">>,
                           ![w].tr = result,
                           ![w].score = score_recording(result.transcription,
                                                        workers[w].target),
                           ![w].emitted = "finished"]
         /\ mainq' = Append(mainq,
                Msg("finished", w, "", NoResult,
                    score_recording(result.transcription, workers[w].target)))

worker_run(w, outcome) ==
    /\ workers[w].pc = "start"
    /\ worker_emit(w, transcribe_audio(TRUE, FileAt(workers[w].path), outcome))

WorkerRun == \E w \in Workers, outcome \in Outcomes :
    /\ worker_run(w, outcome)
    /\ UNCHANGED <<avars, files, authv, navv, recv, db, saved_audio, callv, ledv>>

\* lines 648-664: the row is inserted unless the session is a guest's (or
\* reading current_user.id or the INSERT raises, which the handler swallows)
may_save == ~is_guest /\ current_sentence

save_to_db(w, score, db_ok) ==
    IF may_save /\ current_user # "none" /\ db_ok
    THEN /\ db' = db \cup {[user |-> current_user, path |-> current_audio_path,
                            transcription |-> score.transcription,
                            accuracy |-> score.accuracy,
                            category |-> score.category]}
         /\ workers' = [workers EXCEPT ![w].pc = "handled", ![w].saved = TRUE,
                                       ![w].guest = is_guest]
    ELSE /\ db' = db
         /\ workers' = [workers EXCEPT ![w].pc = "handled", ![w].guest = is_guest]

\* _on_processing_done(score)
on_processing_done(w, score, db_ok) ==
    /\ set_state(ScoreLed(score.category), "main")
    /\ save_to_db(w, score, db_ok)
    /\ stack' = "score"

OnProcessingDone ==
    /\ mainq # <<>>
    /\ Head(mainq).kind = "finished"
    /\ mainq' = Tail(mainq)
    /\ \E db_ok \in BOOLEAN :
          on_processing_done(Head(mainq).w, Head(mainq).score, db_ok)
    /\ UNCHANGED <<avars, files, authv, screen, recv, saved_audio, callv,
                   tts_timers, playing>>

\* an error slot that shows a text of its own instead of the message
on_processing_error_generic(w, msg) ==
    /\ set_state("error", "main")
    /\ workers' = [workers EXCEPT ![w].pc = "handled", ![w].shown = "Processing failed"]
    /\ stack' = "playback"

\* _on_processing_error(msg): the message is shown in the error dialog
on_processing_error(w, msg) ==
    /\ set_state("error", "main")
    /\ workers' = [workers EXCEPT ![w].pc = "handled", ![w].shown = msg]
    /\ stack' = "playback"

OnProcessingError ==
    /\ mainq # <<>>
    /\ Head(mainq).kind = "error"
    /\ mainq' = Tail(mainq)
    /\ on_processing_error(Head(mainq).w, Head(mainq).msg)
    /\ UNCHANGED <<avars, files, authv, screen, recv, db, saved_audio, callv,
                   tts_timers, playing>>

(* ------------------------------------- the capture thread under the screen *)
UiOpen == \E s \in Sessions, ok \in BOOLEAN :
    record_open(s, ok) /\ UNCHANGED <<uvars, saved_audio, callv, ledv>>

UiCallback == \E s \in Sessions :
    audio_callback(s) /\ UNCHANGED <<uvars, saved_audio, callv, ledv>>

UiPoll == \E s \in Sessions :
    record_poll(s) /\ UNCHANGED <<uvars, saved_audio, callv, ledv>>

UiStopped == \E s \in Sessions :
    record_stopped(s) /\ UNCHANGED <<uvars, saved_audio, callv, ledv>>

UiCheck == \E s \in Sessions :
    record_check(s) /\ UNCHANGED <<uvars, saved_audio, callv, ledv>>

UiSave == \E s \in Sessions, lvl \in Levels, ok \in BOOLEAN :
    record_save(s, lvl, ok) /\ UNCHANGED <<uvars, saved_audio, callv, ledv>>

UiResult == \E s \in Sessions :
    record_result(s) /\ UNCHANGED <<uvars, saved_audio, callv, ledv>>

UiExcept == \E s \in Sessions :
    record_except(s) /\ UNCHANGED <<uvars, saved_audio, callv, ledv>>

\* done_callback is `lambda result: self._recording_finished.emit(result)`:
\* the result is queued for the main thread
UiDeliver == \E s \in Sessions :
    /\ \/ record_deliver(s, FALSE)
       \/ record_deliver_err(s, FALSE)
    /\ mainq' = Append(mainq, Msg("rec", 0, "", thr[s].result, NoScore))
    /\ UNCHANGED <<authv, navv, recv, workers, db, saved_audio, callv, ledv>>

(* -------------------------------------------- backend/engine.evaluate_audio *)
\* lines 88-92: the upload is kept in SAVE_DIR in login mode, removed otherwise
evaluate_audio(mode) ==
    IF mode = "login"
    THEN saved_audio' = saved_audio \cup {mode}
    ELSE saved_audio' = saved_audio

Evaluate == \E mode \in {"guest", "login"} :
    /\ evaluate_audio(mode)
    /\ UNCHANGED <<avars, files, uvars, callv, ledv>>

(* ------------------------------------------------------------------ Init *)
\* no call of a function on its own is under way
NoArgs == [text |-> <<>>, null |-> FALSE, ref |-> <<>>, hyp |-> <<>>,
           dist |-> 0, n |-> 1, wer |-> 0, wer2 |-> 0, file |-> NoFile]
NoRet == [fn |-> "", text |-> <<>>, num |-> 0, dist |-> 0,
          score |-> NoScore, score2 |-> NoScore,
          verdict |-> [valid |-> FALSE, issues |-> <<>>, raised |-> FALSE]]

\* the application right after construction
Idle ==
    /\ is_recording = FALSE
    /\ stop_event = FALSE
    /\ audio_data = <<>>
    /\ thr = <<>>
    /\ files = [p \in Paths |-> NoFile]
    /\ current_user = "none"
    /\ guest_temp_dir = 0
    /\ guests = 0
    /\ screen = "auth"
    /\ stack = "selection"
    /\ current_sentence = FALSE
    /\ current_audio_path = NoPath
    /\ timer_on = FALSE
    /\ now = 1
    /\ mainq = <<>>
    /\ workers = <<>>
    /\ db = {}
    /\ saved_audio = {}
    /\ led = [state |-> "idle", by |-> "main"]
    /\ tts_timers = 0
    /\ playing = 0

Init ==
    /\ Idle
    /\ args = NoArgs
    /\ ret = NoRet

(* ------------------------------------------------------ the whole program *)
Next ==
    \/ Login \/ GuestLogin \/ Logout \/ GoToRecording
    \/ SelectSentence \/ StartClicked \/ StopClicked \/ TimerExpired
    \/ BackClicked \/ ScoreClicked \/ PlayTts \/ PlaybackDone
    \/ ProcessRecording \/ WorkerRun \/ OnProcessingDone \/ OnProcessingError
    \/ UiOpen \/ UiCallback \/ UiPoll \/ UiStopped \/ UiCheck \/ UiSave
    \/ UiResult \/ UiExcept \/ UiDeliver
    \/ Evaluate

Spec == Init /\ [][Next]_vars

(* ------------------------------------------- the capture service on its own *)
\* any caller on one control thread; done_callback is any callable and may raise
CapStart ==
    /\ CanStart
    /\ \E p \in {UserDir} \X (1..MaxTime) : start_recording(p)
    /\ UNCHANGED <<files, uvars, saved_audio, callv, ledv>>

CapStop ==
    /\ stop_recording
    /\ UNCHANGED <<files, uvars, saved_audio, callv, ledv>>

CapOpen == \E s \in Sessions, ok \in BOOLEAN :
    record_open(s, ok) /\ UNCHANGED <<uvars, saved_audio, callv, ledv>>

CapCallback == \E s \in Sessions :
    audio_callback(s) /\ UNCHANGED <<uvars, saved_audio, callv, ledv>>

CapPoll == \E s \in Sessions :
    record_poll(s) /\ UNCHANGED <<uvars, saved_audio, callv, ledv>>

CapStopped == \E s \in Sessions :
    record_stopped(s) /\ UNCHANGED <<uvars, saved_audio, callv, ledv>>

CapCheck == \E s \in Sessions :
    record_check(s) /\ UNCHANGED <<uvars, saved_audio, callv, ledv>>

CapSave == \E s \in Sessions, lvl \in Levels, ok \in BOOLEAN :
    record_save(s, lvl, ok) /\ UNCHANGED <<uvars, saved_audio, callv, ledv>>

CapDeliver == \E s \in Sessions, r \in BOOLEAN :
    record_deliver(s, r) /\ UNCHANGED <<uvars, saved_audio, callv, ledv>>

CapResult == \E s \in Sessions :
    record_result(s) /\ UNCHANGED <<uvars, saved_audio, callv, ledv>>

CapExcept == \E s \in Sessions :
    record_except(s) /\ UNCHANGED <<uvars, saved_audio, callv, ledv>>

CapDeliverErr == \E s \in Sessions, r \in BOOLEAN :
    record_deliver_err(s, r) /\ UNCHANGED <<uvars, saved_audio, callv, ledv>>

NextCapture ==
    \/ CapStart \/ CapStop
    \/ CapOpen \/ CapCallback \/ CapPoll \/ CapStopped \/ CapCheck
    \/ CapSave \/ CapResult \/ CapDeliver \/ CapExcept \/ CapDeliverErr

SpecCapture == Init /\ [][NextCapture]_vars

(* ------------------------------------------- the input device under the service *)
\* the capture service once more, followed through one more session: the
\* caller records to one path, the device opens, the samples are at normal
\* level and done_callback returns; writing the file may fail
DevStart ==
    /\ is_recording \/ Len(thr) < MaxDeviceSessions
    /\ start_recording(<<UserDir, 1>>)
    /\ UNCHANGED <<files, uvars, saved_audio, callv, ledv>>

DevStop ==
    /\ stop_recording
    /\ UNCHANGED <<files, uvars, saved_audio, callv, ledv>>

DevOpen == \E s \in Sessions :
    record_open(s, TRUE) /\ UNCHANGED <<uvars, saved_audio, callv, ledv>>

DevCallback == \E s \in Sessions :
    audio_callback(s) /\ UNCHANGED <<uvars, saved_audio, callv, ledv>>

DevPoll == \E s \in Sessions :
    record_poll(s) /\ UNCHANGED <<uvars, saved_audio, callv, ledv>>

DevStopped == \E s \in Sessions :
    record_stopped(s) /\ UNCHANGED <<uvars, saved_audio, callv, ledv>>

DevCheck == \E s \in Sessions :
    record_check(s) /\ UNCHANGED <<uvars, saved_audio, callv, ledv>>

DevSave == \E s \in Sessions, ok \in BOOLEAN :
    record_save(s, [rms |-> 200, peak |-> 500], ok)
    /\ UNCHANGED <<uvars, saved_audio, callv, ledv>>

DevDeliver == \E s \in Sessions :
    record_deliver(s, FALSE) /\ UNCHANGED <<uvars, saved_audio, callv, ledv>>

DevResult == \E s \in Sessions :
    record_result(s) /\ UNCHANGED <<uvars, saved_audio, callv, ledv>>

DevExcept == \E s \in Sessions :
    record_except(s) /\ UNCHANGED <<uvars, saved_audio, callv, ledv>>

DevDeliverErr == \E s \in Sessions :
    record_deliver_err(s, FALSE) /\ UNCHANGED <<uvars, saved_audio, callv, ledv>>

NextDevice ==
    \/ DevStart \/ DevStop
    \/ DevOpen \/ DevCallback \/ DevPoll \/ DevStopped \/ DevCheck
    \/ DevSave \/ DevResult \/ DevDeliver \/ DevExcept \/ DevDeliverErr

SpecDevice == Init /\ [][NextDevice]_vars

(* ------------------------------------------- the scoring functions on their own *)
\* the characters of the texts normalize_text is called on: an upper-case
\* and a lower-case letter, two separators and two punctuation marks
Alphabet == {"A", "b", " ", "\t", ".", "!"}
Texts == UNION {[1..k -> Alphabet] : k \in 0..MaxTextLen}

\* normalize_text(text) where text may be None: `if not text: return ''`
normalize_input(a) ==
    IF a.null THEN <<>> ELSE normalize_text(a.text)

InitNormalize ==
    /\ Idle
    /\ \E t \in Texts, b \in BOOLEAN :
          args = [NoArgs EXCEPT !.text = IF b THEN <<>> ELSE t, !.null = b]
    /\ ret = NoRet

CallNormalize ==
    /\ ret.fn = ""
    /\ ret' = [NoRet EXCEPT !.fn = "normalize_text", !.text = normalize_input(args)]
    /\ UNCHANGED <<avars, files, uvars, saved_audio, args, ledv>>

NextNormalize == CallNormalize

SpecNormalize == InitNormalize /\ [][NextNormalize]_vars

\* the words the sentences given to calculate_wer are made of, as typed
RawWords == { <<"g", "o">>, <<"G", "o">>, <<"o", "n">>, <<"o", "n", ".">>,
              <<"n", "o">> }
\* texts without a word
Blanks == { <<" ">>, <<".">>, <<"!", " ">> }
Sentences == {Join(ws) : ws \in UNION {[1..k -> RawWords] : k \in 0..MaxWords}}
             \cup Blanks

\* ref_words, hyp_words of lines 46-47
Tokens(text) == Split(normalize_text(text))

\* dp[n][m] of line 84 (the table is not built when the reference has no word)
edit_distance(reference, hypothesis) ==
    IF Tokens(reference) = <<>> THEN 0
    ELSE EditDp(Tokens(reference), Tokens(hypothesis),
                Len(Tokens(reference)), Len(Tokens(hypothesis)))

InitWer ==
    /\ Idle
    /\ \E r \in Sentences, h \in Sentences :
          args = [NoArgs EXCEPT !.ref = r, !.hyp = h]
    /\ ret = NoRet

CallWer ==
    /\ ret.fn = ""
    /\ ret' = [NoRet EXCEPT !.fn = "calculate_wer",
                            !.num = calculate_wer(args.ref, args.hyp),
                            !.dist = edit_distance(args.ref, args.hyp)]
    /\ UNCHANGED <<avars, files, uvars, saved_audio, args, ledv>>

NextWer == CallWer

SpecWer == InitWer /\ [][NextWer]_vars

\* lines 85-88 on their own: wer = edit_distance / n; return round(wer, 4)
wer_of(distance, n) == Round4(distance, n)

\* the reference lengths and, for each, the edit distances that are divided
RefSizes == (1..MaxRefWords) \cup {LongRef}
DistsFor(n) ==
    IF n <= MaxRefWords THEN 0..(2 * n + 1) ELSE {n, n + 1, n + 2, 2 * n}

InitRound ==
    /\ Idle
    /\ \E n \in RefSizes : \E d \in DistsFor(n) :
          args = [NoArgs EXCEPT !.dist = d, !.n = n]
    /\ ret = NoRet

CallRound ==
    /\ ret.fn = ""
    /\ ret' = [NoRet EXCEPT !.fn = "round", !.num = wer_of(args.dist, args.n)]
    /\ UNCHANGED <<avars, files, uvars, saved_audio, args, ledv>>

NextRound == CallRound

SpecRound == InitRound /\ [][NextRound]_vars

\* the WERs calculate_score is called on: the whole hundredths, where the
\* percentage is a whole number, their neighbours, and the thirds
Wers == {w \in 0..MaxWer : w % 100 \in {0, 1, 33, 67, 99}}

InitScore ==
    /\ Idle
    /\ \E w1 \in Wers, w2 \in Wers :
          /\ w1 <= w2
          /\ args = [NoArgs EXCEPT !.wer = w1, !.wer2 = w2]
    /\ ret = NoRet

\* calculate_score called on two WERs, the smaller first
CallScore ==
    /\ ret.fn = ""
    /\ ret' = [NoRet EXCEPT !.fn = "calculate_score",
                            !.score = calculate_score(args.wer),
                            !.score2 = calculate_score(args.wer2)]
    /\ UNCHANGED <<avars, files, uvars, saved_audio, args, ledv>>

NextScore == CallScore

SpecScore == InitScore /\ [][NextScore]_vars

(* ----------------------------------------------- the validator on its own *)
\* the states of the file at audio_path: missing, or present with a header
\* wave.open accepts or not, sample data of even or odd length, a size that
\* can be read or not, and any frame count, rate, channel count, level and
\* size.  In a canonical file (16-bit samples right behind a 44-byte header)
\* the values read from offset 44 on are the samples; in any other file (more
\* chunks before the data, 8-bit samples) they are not
FileStates ==
    {NoFile} \cup
    {f \in [exists : {TRUE}, header_ok : BOOLEAN, data_even : BOOLEAN,
            stat_ok : BOOLEAN, canonical : BOOLEAN,
            frames : {0, BlockFrames, 2 * BlockFrames},
            rate : {0, BlockFrames, AUDIO_SAMPLE_RATE},
            channels : {AUDIO_CHANNELS, AUDIO_CHANNELS + 1},
            rms : {l.rms : l \in Levels}, peak : {l.peak : l \in Levels},
            rms44 : {l.rms : l \in Levels}, peak44 : {l.peak : l \in Levels},
            size : {WavHeaderBytes, WavHeaderBytes + 2 * BlockFrames,
                    WavHeaderBytes + 4 * BlockFrames, MAX_AUDIO_FILE_SIZE + 1}] :
        f.canonical => f.rms44 = f.rms /\ f.peak44 = f.peak}

InitValidate ==
    /\ Idle
    /\ \E f \in FileStates : args = [NoArgs EXCEPT !.file = f]
    /\ ret = NoRet

CallValidate ==
    /\ ret.fn = ""
    /\ ret' = [NoRet EXCEPT !.fn = "validate_recording",
                            !.verdict = validate_recording(args.file)]
    /\ UNCHANGED <<avars, files, uvars, saved_audio, args, ledv>>

NextValidate == CallValidate

SpecValidate == InitValidate /\ [][NextValidate]_vars

(* ========================================================================= *)
(* Properties of the capture service (SpecCapture)                          *)
(* ========================================================================= *)

\* the sessions whose thread object is still held
Held == {s \in Sessions : thr[s].pc # "gone"}

\* the result handed to done_callback first, when one has been handed over
Delivered(s) == thr[s].calls # <<>>

C1_Once ==
    \A s \in Held :
        /\ thr[s].exits <= 1
        /\ thr[s].saves <= 1
        /\ thr[s].finals <= 1
        /\ (~thr[s].cb_raised => Len(thr[s].calls) <= 1)

C1_NoOp ==
    CapStop /\ (stop_event \/ ~is_recording) =>
        /\ UNCHANGED <<is_recording, stop_event, audio_data, files>>
        /\ \A s \in Sessions : thr'[s].pc = thr[s].pc

\* C1: stop_recording is idempotent.  However many stop requests a session
\* receives, it leaves the capture loop once, saves at most one artifact and
\* builds one result (handed to done_callback once unless the callback itself
\* raises); and a stop_recording call made while the stop event is already set,
\* or while nothing is recording, changes no state of the service and moves no
\* thread.
C1_StopIdempotent == [](C1_Once) /\ [][C1_NoOp]_vars

\* a session that was asked to stop twice while capturing and then completed
\* with one exit, one artifact and one delivered result
C1_Witness ==
    \E s \in Held :
        /\ thr[s].stop_req = 2
        /\ thr[s].pc = "done"
        /\ thr[s].exits = 1 /\ thr[s].saves = 1
        /\ thr[s].calls = <<ResultSaved(thr[s].path)>>
        /\ files[thr[s].path].exists

\* C2: a start_recording call made before the running session has delivered
\* its result starts no second capture thread: no state holds a later session
\* while an earlier one is still undelivered.
C2_StartRejected ==
    \A s, t \in Held : s < t => Delivered(s)

\* C3: a stop_recording call made while a session is capturing ends it: from
\* that call on, for as long as the session stays in its capture loop, the
\* stop event the loop polls is set.
C3_StopEndsRecording ==
    \A s \in Held : Capturing(s) /\ thr[s].stop_req > 0 => stop_event

C10_Structured ==
    \A s \in Held :
        /\ thr[s].opens <= 1
        /\ thr[s].escaped \in {"none", "callback"}
        /\ thr[s].open_failed /\ thr[s].pc \in {"done", "crashed"} =>
               /\ Delivered(s)
               /\ thr[s].calls[1] = ResultError
        /\ thr[s].empty /\ thr[s].pc \in {"done", "crashed"} =>
               /\ Delivered(s)
               /\ thr[s].calls[1] = ResultEmpty
        /\ \A i \in 1..Len(thr[s].calls) :
               ~thr[s].calls[i].success => thr[s].calls[i].message # ""

\* C10: a failure to open the input device and an empty capture both reach
\* the caller as a result with success = False and a message, handed to
\* done_callback; the only exception that can leave the capture thread is one
\* raised by done_callback itself; and a session opens the device at most once.
C10_StructuredFailure == C10_Structured

\* one session whose device failed to open and one whose capture was empty,
\* each ended with its failure result delivered
C10_Witness ==
    /\ \E s \in Held : /\ thr[s].open_failed /\ thr[s].pc = "done"
                         /\ thr[s].calls = <<ResultError>>
    /\ \E s \in Held : /\ thr[s].empty /\ thr[s].pc = "done"
                         /\ thr[s].calls = <<ResultEmpty>>

\* the session left its capture loop before its duration had elapsed
EndedEarly(s) == thr[s].exits > 0 /\ thr[s].elapsed < Duration

\* C27: every session starts with the stop event clear, so a stop request
\* ends only sessions that were started before it: a session leaves its
\* capture loop before its duration has elapsed only if a stop request set
\* the event after that session was started, and a session that has just been
\* started finds the event clear and the buffer empty whatever was requested
\* before.
C27_FreshSession ==
    /\ [](\A s \in Held : EndedEarly(s) => thr[s].stop_set)
    /\ [][CapStart /\ Len(thr') > Len(thr) => ~stop_event' /\ audio_data' = <<>>]_vars

\* a first session ended by a stop request, and a second one, started after
\* it, that no request was made for and that ran for its whole duration
C27_Witness ==
    /\ Len(thr) = 2
    /\ thr[2].exits = 1 /\ ~thr[2].stop_set /\ thr[2].elapsed = Duration
    /\ thr[1].pc # "gone" /\ EndedEarly(1) /\ thr[1].stop_set

\* done_callback is being invoked by the thread of session s
Invoked(s) == Len(thr'[s].calls) > Len(thr[s].calls)

\* C29: for every accepted start_recording, done_callback is invoked exactly
\* once: never twice, once by the time the capture thread has ended, whatever
\* path the thread took; and _is_recording is False at every invocation.
C29_DoneCallbackOnce ==
    /\ [](\A s \in Held :
             /\ Len(thr[s].calls) <= 1
             /\ (Ended(s) => Len(thr[s].calls) = 1))
    /\ [][\A s \in Sessions : Invoked(s) => ~is_recording]_vars

\* C25: a session hands over a result with success = True only if, when the
\* result was built, its artifact existed with a size above zero; every other
\* result has success = False and a message.
C25_CompletedHasArtifact ==
    \A s \in Held : \A i \in 1..Len(thr[s].calls) :
        /\ (thr[s].calls[i].success => thr[s].file_size > 0)
        /\ (~thr[s].calls[i].success => thr[s].calls[i].message # "")

\* C24: the input device is owned by one session at a time: no state holds
\* two sessions whose input stream is open.
C24_OneOpenStream ==
    \A s, t \in Held : Capturing(s) /\ Capturing(t) => s = t

(* ========================================================================= *)
(* Properties of the recording pipeline (Spec)                              *)
(* ========================================================================= *)

\* the workers whose object is still held
HeldWorkers == {w \in Workers : workers[w].pc # "gone"}

\* the worker has run (transcription was invoked on its artifact)
Ran(w) == workers[w].pc \in {"finished", "handled"}

HardIssues == {"file_not_found", "corrupted", "too_short", "wrong_sample_rate",
               "not_mono"}
SoftIssues == {"too_quiet", "clipping"}

\* C4: transcription is never invoked on an artifact whose validation verdict
\* holds a hard issue (file_not_found, corrupted, too_short, wrong_sample_rate,
\* not_mono), whatever else the verdict holds.
C4_HardIssuesBlock ==
    \A w \in HeldWorkers :
        Ran(w) => Range(workers[w].issues) \cap HardIssues = {}

IsPrefix(a, b) == Len(a) <= Len(b) /\ \A i \in 1..Len(a) : a[i] = b[i]

\* C5: the stages of one pipeline run in the order validate, transcribe,
\* score: the stages a worker has gone through are a prefix of that sequence,
\* transcription has not returned before the worker (created after validation
\* returned) runs, and the score stage appears only after a successful
\* transcription.
C5_StageOrder ==
    \A w \in HeldWorkers :
        /\ workers[w].log # <<>> /\ workers[w].log[1] = "validate"
        /\ IsPrefix(workers[w].log, <<"validate", "transcribe", "score">>)
        /\ (workers[w].pc = "start" =>
               workers[w].log = <<"validate">> /\ workers[w].tr = NoTr)
        /\ (Has(workers[w].log, "score") => workers[w].tr.success)
        /\ (workers[w].score # NoScore => Has(workers[w].log, "score"))

\* a worker that went through all three stages after a successful transcription
C5_Witness ==
    \E w \in HeldWorkers :
        /\ workers[w].log = <<"validate", "transcribe", "score">>
        /\ workers[w].tr.success
        /\ workers[w].score = score_recording(workers[w].tr.transcription, TargetText)

\* the worker ran and its transcription failed
Failed(w) == Ran(w) /\ ~workers[w].tr.success

\* C6: when transcription fails no score is computed, no row is saved for
\* that run, and the message of the transcription result is what the worker
\* emits on its error signal and what the error slot shows.
C6_FailurePassedThrough ==
    /\ \A w \in HeldWorkers :
          Failed(w) =>
            /\ workers[w].score = NoScore
            /\ ~Has(workers[w].log, "score")
            /\ workers[w].emitted = "error"
            /\ ~workers[w].saved
            /\ workers[w].tr.message # ""
            /\ (workers[w].pc = "handled" => workers[w].shown = workers[w].tr.message)
    /\ \A i \in 1..Len(mainq) :
          mainq[i].kind = "error" =>
            /\ mainq[i].msg = workers[mainq[i].w].tr.message
            /\ Failed(mainq[i].w)

\* a failed transcription whose message has been shown, with no score and no row
C6_Witness ==
    \E w \in HeldWorkers :
        /\ Failed(w) /\ workers[w].pc = "handled"
        /\ workers[w].tr.message = MsgTrError
        /\ workers[w].shown = MsgTrError
        /\ workers[w].score = NoScore
        /\ db = {}

\* C7: nothing of a guest session is persisted: no row of the recordings table
\* belongs to the guest or refers to an artifact recorded into a guest
\* directory, every save is made by an authenticated session, and only uploads
\* in login mode are kept.
C7_GuestNeverPersists ==
    /\ \A r \in db : r.user = "user" /\ ~IsGuestDir(r.path[1])
    /\ \A w \in HeldWorkers : workers[w].saved => ~workers[w].guest
    /\ saved_audio \subseteq {"login"}

\* the verdict of a recording that passed capture, as _process_recording sees it
Verdict == validate_recording(FileAt(current_audio_path))

SoftOnly(issues) == issues # <<>> /\ Range(issues) \subseteq SoftIssues

\* _process_recording is handling a captured recording whose only issues are soft
SoftStep ==
    /\ ProcessRecording
    /\ Head(mainq).result.success
    /\ SoftOnly(Verdict.issues)

Spawned == Len(workers') = Len(workers) + 1

ScoreFields == {"transcription", "target", "wer", "accuracy", "category",
                "led_color"}

C8_SoftStepProceeds ==
    SoftStep =>
        \/ Spawned /\ workers'[Len(workers')].issues = Verdict.issues
                   /\ stack' = "processing"
        \/ /\ Has(Verdict.issues, "too_quiet")
           /\ workers' = workers
           /\ stack' = "playback"

C8_Scored ==
    \A w \in HeldWorkers :
        /\ DOMAIN workers[w].score = ScoreFields
        /\ (Ran(w) /\ workers[w].tr.success =>
               /\ workers[w].emitted = "finished"
               /\ workers[w].score =
                     score_recording(workers[w].tr.transcription, workers[w].target))

C9_EmptyTranscriptionScored ==
    /\ \A w \in HeldWorkers :
          Ran(w) /\ workers[w].tr.success /\ workers[w].tr.transcription = <<>> =>
            /\ workers[w].emitted = "finished"
            /\ workers[w].score.wer = 10000
            /\ workers[w].score.accuracy = 0
            /\ workers[w].score.category = "needs_improvement"
            /\ workers[w].shown = ""
    /\ \A i \in 1..Len(mainq) :
          mainq[i].kind = "error" => ~workers[mainq[i].w].tr.success

\* an empty transcription that reached the score page
C9_Witness ==
    \E w \in HeldWorkers :
        /\ workers[w].tr.success /\ workers[w].tr.transcription = <<>>
        /\ workers[w].pc = "handled"
        /\ workers[w].score.accuracy = 0
        /\ stack = "score"

\* C28: the completions of capture, playback and transcription change the
\* state the screen owns (its pages, the LED state) only in slots run on the
\* main thread: the LED state is never set by a background thread.
C28_MainThreadHandoff == led.by = "main"

\* _process_recording is handling the result of a session that saved its artifact
HandOff == ProcessRecording /\ Head(mainq).result.success

\* C26: the artifact handed to validation and transcription when a session
\* has completed is the one that session wrote: at every hand-off the path
\* _process_recording validates and gives to the worker is the audio_path of
\* the result being handled.
C26_ArtifactOwned ==
    [][HandOff => current_audio_path = Head(mainq).result.audio_path]_vars

\* the result of a capture arrives when Back has returned the screen from the
\* recording page to the playback page
Abandoned == ProcessRecording /\ stack = "playback"

\* C30: once the user has left the recording page with Back, the recording
\* is dropped: when its result arrives the playback page stays, and no
\* worker is created for it (so it is neither transcribed nor scored nor
\* saved).
C30_AbandonedDropped ==
    [][Abandoned => UNCHANGED <<stack, workers, db>>]_vars

(* ========================================================================= *)
(* Properties of the scoring functions                                      *)
(* ========================================================================= *)

IsUpper(c) == \E i \in 1..Len(UpperCase) : UpperCase[i] = c

\* the text is empty, or is words of lower-case letters without punctuation,
\* separated by exactly one space, with no whitespace at either end
Normalized(t) ==
    /\ \A i \in 1..Len(t) :
          /\ ~IsUpper(t[i])
          /\ t[i] \notin Punctuation
          /\ (t[i] \in Whitespace =>
                 /\ t[i] = " "
                 /\ 1 < i /\ i < Len(t)
                 /\ t[i + 1] \notin Whitespace)

\* C19: for every text, normalize_text returns a text that holds no upper-case
\* letter and no punctuation character, does not begin or end with whitespace
\* and holds no two whitespace characters in a row; for the empty text and
\* for None it returns the empty text.
C19_NormalizeText ==
    ret.fn = "normalize_text" =>
        /\ Normalized(ret.text)
        /\ (args.null \/ args.text = <<>> => ret.text = <<>>)
        /\ Len(ret.text) <= Len(args.text)

\* a text with an upper-case letter, a punctuation mark and a run of two
\* separators, normalized to two words with one space between
C19_Witness ==
    /\ ret.fn = "normalize_text"
    /\ args.text = <<"A", "!", " ", "\t", "b">>
    /\ ret.text = <<"a", " ", "b">>

\* the sequences one insertion, deletion or substitution away from s, the
\* inserted or substituted words taken from V
OneEdit(s, V) ==
    {SubSeq(s, 1, i - 1) \o SubSeq(s, i + 1, Len(s)) : i \in 1..Len(s)}
    \cup {[s EXCEPT ![i] = v] : i \in 1..Len(s), v \in V}
    \cup {SubSeq(s, 1, i) \o <<v>> \o SubSeq(s, i + 1, Len(s)) :
             i \in 0..Len(s), v \in V}

\* the number of rounds of single edits after which b is first reached
RECURSIVE EditRounds(_, _, _, _)
EditRounds(reached, b, V, k) ==
    IF b \in reached THEN k
    ELSE EditRounds(reached \cup UNION {OneEdit(s, V) : s \in reached}, b, V, k + 1)

\* the least number of single-word edits that turn a into b
Levenshtein(a, b) == EditRounds({a}, b, Range(a) \cup Range(b), 0)

\* C11: the distance calculate_wer takes from its table is the word-level
\* Levenshtein distance between the normalized reference words and the
\* normalized hypothesis words: the least number of single-word insertions,
\* deletions and substitutions that turn the one into the other.
C11_EditDistance ==
    ret.fn = "calculate_wer" /\ Tokens(args.ref) # <<>> =>
        ret.dist = Levenshtein(Tokens(args.ref), Tokens(args.hyp))

\* three reference words against two hypothesis words at distance 2, where
\* matching words one to one by position would count 3
C11_Witness ==
    /\ ret.fn = "calculate_wer"
    /\ Tokens(args.ref) = << <<"g", "o">>, <<"o", "n">>, <<"n", "o">> >>
    /\ Tokens(args.hyp) = << <<"o", "n">>, <<"g", "o">> >>
    /\ ret.dist = 2

Abs(x) == IF x < 0 THEN 0 - x ELSE x

C12_Rounded ==
    ret.fn = "round" =>
        /\ 2 * Abs(ret.num * args.n - args.dist * 10000) <= args.n
        /\ (args.dist > args.n => ret.num >= 10000)
        /\ (20000 * (args.dist - args.n) > args.n => ret.num > 10000)
        /\ (args.dist >= 2 * args.n => ret.num >= 20000)

C13_SelfZero ==
    ret.fn = "calculate_wer" /\ args.ref = args.hyp => ret.num = 0

\* a three-word sentence with capitals and punctuation against itself
C13_Witness ==
    /\ ret.fn = "calculate_wer"
    /\ args.ref = Join(<< <<"G", "o">>, <<"o", "n", ".">>, <<"n", "o">> >>)
    /\ args.hyp = args.ref
    /\ ret.num = 0

\* C14 as stated: for every non-empty reference text, calculate_wer against
\* the empty text is 1.0.
C14_EmptyHypothesis ==
    ret.fn = "calculate_wer" /\ args.ref # <<>> /\ args.hyp = <<>> =>
        ret.num = 10000

\* C14, amended: for every reference with at least one word after
\* normalization calculate_wer against the empty text is 1.0; for a non-empty
\* reference without a word (whitespace or punctuation only) it is 0.0.
C14_EmptyHypothesisOfWords ==
    ret.fn = "calculate_wer" /\ args.hyp = <<>> =>
        /\ (Tokens(args.ref) # <<>> => ret.num = 10000)
        /\ (Tokens(args.ref) = <<>> => ret.num = 0)

\* a two-word reference against the empty text
C14_Witness ==
    /\ ret.fn = "calculate_wer"
    /\ Len(Tokens(args.ref)) = 2
    /\ args.hyp = <<>>
    /\ ret.num = 10000

\* C15: when the reference has no word, calculate_wer is 0.0 if the
\* hypothesis has no word either and 1.0 otherwise, however many words the
\* hypothesis has.
C15_EmptyReference ==
    ret.fn = "calculate_wer" /\ Tokens(args.ref) = <<>> =>
        ret.num = (IF Tokens(args.hyp) = <<>> THEN 0 ELSE 10000)

\* a reference of punctuation only against a three-word hypothesis
C15_Witness ==
    /\ ret.fn = "calculate_wer"
    /\ args.ref = <<".">>
    /\ Len(Tokens(args.hyp)) = 3
    /\ ret.num = 10000

\* (1 - wer) * 100 rounded to the nearest whole number (no WER of the input
\* set lies halfway), then clamped to 0..100
RoundedPercent(wer) ==
    IF wer >= 10000 THEN 0 ELSE Min2(100, (10000 - wer + 50) \div 100)

\* C16: the accuracy calculate_score returns is (1 - wer) * 100 rounded to
\* the nearest whole number and clamped to 0..100.
C16_RoundedAccuracy ==
    ret.fn = "calculate_score" =>
        /\ ret.score.accuracy_percentage \in 0..100
        /\ ret.score.accuracy_percentage = RoundedPercent(args.wer)

\* C17: calculate_score is monotonic: of two WERs, values above 1.0
\* included, the smaller never gets the smaller accuracy.
C17_Monotonic ==
    ret.fn = "calculate_score" /\ args.wer <= args.wer2 =>
        ret.score.accuracy_percentage >= ret.score2.accuracy_percentage

\* a WER below 1.0 with a positive accuracy and a WER above 1.0 with accuracy 0
C17_Witness ==
    /\ ret.fn = "calculate_score"
    /\ args.wer = 3333 /\ args.wer2 = 10100
    /\ ret.score.accuracy_percentage = 66
    /\ ret.score2.accuracy_percentage = 0

\* C18: the category is a function of the accuracy alone: excellent exactly
\* from 70 up, good exactly from 50 to 69, needs_improvement exactly below
\* 50; and WER 0.0 gets accuracy 100 and excellent.
C18_Category ==
    ret.fn = "calculate_score" =>
        /\ ret.score.category \in {"excellent", "good", "needs_improvement"}
        /\ (ret.score.category = "excellent" <=> ret.score.accuracy_percentage >= 70)
        /\ (ret.score.category = "good" <=>
               ret.score.accuracy_percentage >= 50 /\ ret.score.accuracy_percentage < 70)
        /\ (ret.score.category = "needs_improvement" <=>
               ret.score.accuracy_percentage < 50)
        /\ (ret.score.accuracy_percentage = ret.score2.accuracy_percentage =>
               ret.score.category = ret.score2.category)
        /\ (args.wer = 0 =>
               ret.score.accuracy_percentage = 100 /\ ret.score.category = "excellent")

\* WER 0.0 scored 100 and excellent next to a WER scored exactly 70, the
\* lowest excellent accuracy
C18_Witness ==
    /\ ret.fn = "calculate_score"
    /\ args.wer = 0
    /\ ret.score.accuracy_percentage = 100 /\ ret.score.category = "excellent"
    /\ ret.score2.accuracy_percentage = 70 /\ ret.score2.category = "excellent"

(* ========================================================================= *)
(* Properties of the validator                                              *)
(* ========================================================================= *)

\* decoding fails: the file cannot be opened or parsed, or its sample data
\* has odd length
DecodeFails(f) == f.exists /\ (~f.header_ok \/ ~f.data_even)

\* decoding fails, or the size of the file cannot be read
Unreadable(f) == DecodeFails(f) \/ (f.exists /\ ~f.stat_ok)

\* every step of the validator succeeds on the file
Decodable(f) == f.exists /\ ~Unreadable(f)

\* C20: validate_recording never raises: whatever the state of the file, it
\* returns a verdict; a missing file is reported as file_not_found, a file
\* that cannot be opened or parsed or whose sample data has odd length as
\* corrupted, as is a file whose size cannot be read, a readable oversized
\* file as too_large; and valid is true exactly when the list of issues is
\* empty.
C20_NeverRaises ==
    ret.fn = "validate_recording" =>
        /\ ~ret.verdict.raised
        /\ (ret.verdict.valid <=> ret.verdict.issues = <<>>)
        /\ (~args.file.exists => ret.verdict.issues = <<"file_not_found">>)
        /\ (Unreadable(args.file) => Has(ret.verdict.issues, "corrupted"))
        /\ (Decodable(args.file) /\ args.file.size > MAX_AUDIO_FILE_SIZE =>
               Has(ret.verdict.issues, "too_large"))

\* a file whose header parses and whose sample data has odd length: the
\* failure is returned as corrupted after the issues found before it
C20_Witness ==
    /\ ret.fn = "validate_recording"
    /\ args.file.exists /\ args.file.header_ok /\ ~args.file.data_even
    /\ ret.verdict = [valid |-> FALSE, raised |-> FALSE,
                      issues |-> <<"too_short", "corrupted">>]

\* C21: for a decodable artifact each check decides its own issue, whatever
\* the other checks find: too_short is in the verdict exactly when the frames
\* last less than MIN_RECORDING_DURATION at the file's rate (a rate of 0
\* counts as duration 0), wrong_sample_rate exactly when the rate is not
\* AUDIO_SAMPLE_RATE, too_quiet exactly when there are samples and the RMS of
\* the samples is below 0.01, clipping exactly when there are samples and the
\* peak of the samples is above 0.95, too_large exactly when the size exceeds MAX_AUDIO_FILE_SIZE;
\* the verdict holds nothing else.
C21_IndependentChecks ==
    ret.fn = "validate_recording" /\ Decodable(args.file) =>
        /\ (Has(ret.verdict.issues, "too_short") <=>
               (args.file.rate = 0
                \/ args.file.frames < MIN_RECORDING_DURATION * args.file.rate))
        /\ (Has(ret.verdict.issues, "wrong_sample_rate") <=>
               args.file.rate # 16000)
        /\ (Has(ret.verdict.issues, "too_quiet") <=>
               (args.file.size > 44 /\ args.file.rms < 10))
        /\ (Has(ret.verdict.issues, "clipping") <=>
               (args.file.size > 44 /\ args.file.peak > 950))
        /\ (Has(ret.verdict.issues, "too_large") <=> args.file.size > 10485760)
        /\ Range(ret.verdict.issues) \subseteq
               {"too_short", "wrong_sample_rate", "too_quiet", "clipping", "too_large"}
        /\ Len(ret.verdict.issues) = Cardinality(Range(ret.verdict.issues))

\* C22: every artifact whose channel count is not 1 gets not_mono in its
\* verdict and is not valid.
C22_NotMono ==
    ret.fn = "validate_recording" /\ args.file.exists
       /\ args.file.channels # 1 =>
        /\ Has(ret.verdict.issues, "not_mono")
        /\ ~ret.verdict.valid

\* C23: when decoding fails (the header cannot be read, or the sample data
\* cannot be taken as 16-bit samples) the verdict ends with corrupted, holds
\* before it exactly the too_short and wrong_sample_rate found from a header
\* that was read, and holds neither too_quiet nor clipping.
C23_CorruptedKeepsStructural ==
    ret.fn = "validate_recording" /\ DecodeFails(args.file) =>
        /\ ~ret.verdict.valid
        /\ ret.verdict.issues[Len(ret.verdict.issues)] = "corrupted"
        /\ ~Has(ret.verdict.issues, "too_quiet")
        /\ ~Has(ret.verdict.issues, "clipping")
        /\ (args.file.header_ok =>
               /\ (Has(ret.verdict.issues, "too_short") <=>
                      (args.file.rate = 0
                       \/ args.file.frames < MIN_RECORDING_DURATION * args.file.rate))
               /\ (Has(ret.verdict.issues, "wrong_sample_rate") <=>
                      args.file.rate # 16000))
        /\ (~args.file.header_ok => ret.verdict.issues = <<"corrupted">>)

\* a short file at the wrong rate, silent and clipping, whose sample data has
\* odd length: both structural issues are kept, no level issue is added
C23_Witness ==
    /\ ret.fn = "validate_recording"
    /\ args.file.exists /\ args.file.header_ok /\ ~args.file.data_even
    /\ args.file.rms < 10 /\ args.file.peak > 950 /\ args.file.size > 44
    /\ ret.verdict.issues = <<"too_short", "wrong_sample_rate", "corrupted">>

====
